---- MODULE Spec2Model ----
(***************************************************************************)
(* A model of hvac_stability/cli.py: the credential store (Config), the    *)
(* device directory (HVACManager) and the commands login, list and         *)
(* store_device_ip.                                                         *)
(*                                                                         *)
(* Python strings are sequences of code points (naturals); bytes are       *)
(* sequences of naturals below 256.  Python's None is the value None below, *)
(* which is no string.                                                     *)
(***************************************************************************)
EXTENDS Integers, Sequences, FiniteSets, TLC

\* ------------------------------------------------------------------------
\* Python values

\* Python's None.  <<-1>> is no string: code points are naturals.
None == <<-1>>

\* bool(x) for x a string or None: None and "" are falsy (lines 91, 124, 227).
Truthy(x) == x # None /\ x # <<>>

\* Python's "a or b"
Or(a, b) == IF Truthy(a) THEN a ELSE b

\* ------------------------------------------------------------------------
\* json.dumps of a str (ensure_ascii=True, the default), line 78

HexDigit(d) == IF d < 10 THEN 48 + d ELSE 87 + d

\* "\uXXXX" for a code point of the basic multilingual plane
UEscape(c) ==
    << 92, 117, HexDigit(c \div 4096), HexDigit((c \div 256) % 16),
       HexDigit((c \div 16) % 16), HexDigit(c % 16) >>

\* py_encode_basestring_ascii: one character
EscapeChar(c) ==
    CASE c = 34 -> << 92, 34 >>
      [] c = 92 -> << 92, 92 >>
      [] c = 10 -> << 92, 110 >>
      [] c = 13 -> << 92, 114 >>
      [] c = 9  -> << 92, 116 >>
      [] c = 8  -> << 92, 98 >>
      [] c = 12 -> << 92, 102 >>
      [] OTHER  -> IF c >= 32 /\ c <= 126 THEN << c >> ELSE UEscape(c)

RECURSIVE EscapeFrom(_, _)
EscapeFrom(s, i) ==
    IF i > Len(s) THEN << >> ELSE EscapeChar(s[i]) \o EscapeFrom(s, i + 1)

\* json.dumps(s) for a str s: the quoted, escaped literal
JsonString(s) == << 34 >> \o EscapeFrom(s, 1) \o << 34 >>

\* The literal text  {"username": <u>, "password": <p>}  of json.dumps(creds_data):
\* the keys in insertion order, separators ", " and ": ".
KeyUsername == << 117, 115, 101, 114, 110, 97, 109, 101 >>
KeyPassword == << 112, 97, 115, 115, 119, 111, 114, 100 >>

JsonDumpsCreds(u, p) ==
    << 123 >> \o JsonString(KeyUsername) \o << 58, 32 >> \o JsonString(u)
      \o << 44, 32 >> \o JsonString(KeyPassword) \o << 58, 32 >> \o JsonString(p)
      \o << 125 >>

\* ------------------------------------------------------------------------
\* base64.b64encode, lines 78-80

\* The standard alphabet: the character of a 6-bit value
B64Char(v) ==
    CASE v < 26 -> 65 + v
      [] v < 52 -> 71 + v
      [] v < 62 -> v - 4
      [] v = 62 -> 43
      [] OTHER  -> 47

RECURSIVE B64EncodeFrom(_, _)
B64EncodeFrom(b, i) ==
    LET n == Len(b) - i + 1 IN
    IF n <= 0 THEN << >>
    ELSE IF n = 1 THEN
        << B64Char(b[i] \div 4), B64Char((b[i] % 4) * 16), 61, 61 >>
    ELSE IF n = 2 THEN
        << B64Char(b[i] \div 4),
           B64Char((b[i] % 4) * 16 + b[i + 1] \div 16),
           B64Char((b[i + 1] % 16) * 4), 61 >>
    ELSE
        << B64Char(b[i] \div 4),
           B64Char((b[i] % 4) * 16 + b[i + 1] \div 16),
           B64Char((b[i + 1] % 16) * 4 + b[i + 2] \div 64),
           B64Char(b[i + 2] % 64) >> \o B64EncodeFrom(b, i + 3)

B64Encode(b) == B64EncodeFrom(b, 1)

\* str.encode("utf-8") of a text json.dumps wrote: ensure_ascii leaves only
\* ASCII, one byte each.
Utf8EncodeAscii(s) == s

\* A store that writes the JSON text without base64-encoding it
EncodeCredsRaw(u, p) == Utf8EncodeAscii(JsonDumpsCreds(u, p))

\* encoded_data of store_credentials (lines 77-80)
EncodeCreds(u, p) == B64Encode(Utf8EncodeAscii(JsonDumpsCreds(u, p)))

\* ------------------------------------------------------------------------
\* base64.b64decode (binascii.a2b_base64, not strict), line 66

\* table_a2b_base64: the 6-bit value of a character, 64 for one outside the
\* alphabet
B64Value(c) ==
    CASE c >= 65 /\ c <= 90  -> c - 65
      [] c >= 97 /\ c <= 122 -> c - 71
      [] c >= 48 /\ c <= 57  -> c + 4
      [] c = 43 -> 62
      [] c = 47 -> 63
      [] OTHER  -> 64

\* a character of the alphabet (a data character)
IsB64Data(c) == B64Value(c) < 64

\* the number of data characters before index i: with it, quad_pos at i is
\* B64DataBefore(s, i) % 4
B64DataBefore(s, i) == Cardinality({j \in 1..(i - 1) : IsB64Data(s[j])})

\* The decoder's loop "goto done" at index i: a pad character '=' met with
\* quad_pos >= 2 that completes the quad (quad_pos + ++pads >= 4).  pads
\* counts the pad characters since the last data character, so with
\* quad_pos = 3 the first pad stops the loop and with quad_pos = 2 the second.
B64StopsAt(s, i) ==
    /\ s[i] = 61
    /\ LET n == B64DataBefore(s, i) IN
         \/ n % 4 = 3
         \/ /\ n % 4 = 2
            /\ \E j \in 1..(i - 1) : s[j] = 61 /\ B64DataBefore(s, j) = n

\* The bytes of the data characters d (their 6-bit values): three for every
\* full quad, and one or two for a last quad of two or three characters.
B64Bytes(d) ==
    LET n == Len(d)
        nbytes == (n \div 4) * 3 + (IF n % 4 = 2 THEN 1 ELSE IF n % 4 = 3 THEN 2 ELSE 0)
    IN [k \in 1..nbytes |->
          LET g == 4 * ((k - 1) \div 3)
              r == (k - 1) % 3
          IN CASE r = 0 -> d[g + 1] * 4 + d[g + 2] \div 16
               [] r = 1 -> (d[g + 2] % 16) * 16 + d[g + 3] \div 4
               [] OTHER -> (d[g + 3] % 4) * 64 + d[g + 4]]

\* a2b_base64 over the whole input: characters outside the alphabet are
\* skipped, the loop ends at the first stopping pad or at the end of the
\* input, and an input that ends inside a quad is binascii.Error.
\* The result is [ok, bytes].
B64DecodeLoop(s) ==
    LET stops == {i \in 1..Len(s) : s[i] = 61 /\ B64StopsAt(s, i)}
        last  == IF stops = {} THEN Len(s)
                 ELSE (CHOOSE i \in stops : \A j \in stops : i <= j) - 1
        chars == SelectSeq(SubSeq(s, 1, last), IsB64Data)
        d     == [k \in 1..Len(chars) |-> B64Value(chars[k])]
    IN [ok |-> stops # {} \/ Len(d) % 4 = 0, bytes |-> B64Bytes(d)]

\* b64decode of a str: a non-ASCII character is a ValueError
B64Decode(s) ==
    IF \E i \in 1..Len(s) : s[i] > 127 THEN [ok |-> FALSE, bytes |-> << >>]
    ELSE B64DecodeLoop(s)

\* ------------------------------------------------------------------------
\* str.strip(), line 64

IsSpace(c) == c \in {9, 10, 11, 12, 13, 28, 29, 30, 31, 32, 133, 160}

RECURSIVE LStripFrom(_, _)
LStripFrom(s, i) ==
    IF i <= Len(s) /\ IsSpace(s[i]) THEN LStripFrom(s, i + 1) ELSE i

RECURSIVE RStripFrom(_, _)
RStripFrom(s, j) ==
    IF j >= 1 /\ IsSpace(s[j]) THEN RStripFrom(s, j - 1) ELSE j

Strip(s) == SubSeq(s, LStripFrom(s, 1), RStripFrom(s, Len(s)))

\* ------------------------------------------------------------------------
\* bytes.decode("utf-8"), line 66.  One- and two-byte sequences are decoded;
\* a lead byte of a longer sequence (0xE0 and up) occurs in no file of the
\* model and is treated like the invalid bytes: UnicodeDecodeError.

RECURSIVE Utf8DecodeFrom(_, _, _)
Utf8DecodeFrom(b, i, out) ==
    IF i > Len(b) THEN [ok |-> TRUE, text |-> out]
    ELSE IF b[i] < 128 THEN Utf8DecodeFrom(b, i + 1, Append(out, b[i]))
    ELSE IF b[i] >= 194 /\ b[i] <= 223 /\ i + 1 <= Len(b)
            /\ b[i + 1] >= 128 /\ b[i + 1] <= 191
        THEN Utf8DecodeFrom(b, i + 2,
                            Append(out, (b[i] - 192) * 64 + (b[i + 1] - 128)))
    ELSE [ok |-> FALSE, text |-> << >>]

Utf8Decode(b) ==
    IF \A i \in 1..Len(b) : b[i] < 128 THEN [ok |-> TRUE, text |-> b]
    ELSE Utf8DecodeFrom(b, 1, << >>)

\* ------------------------------------------------------------------------
\* json.loads, lines 67 (and 154, 180 for the shape of its result).
\* The scanner below reads the JSON texts made of strings, null and objects
\* whose members are strings or null; every other text is a JSONDecodeError.
\* A parse result is [ok, pos, val]: pos is the index after the value.

JsonFail == [ok |-> FALSE, pos |-> 0, val |-> None]

\* whitespace of the JSON grammar: " \t\n\r"
RECURSIVE SkipWs(_, _)
SkipWs(s, i) ==
    IF i <= Len(s) /\ s[i] \in {32, 9, 10, 13} THEN SkipWs(s, i + 1) ELSE i

HexValue(c) ==
    CASE c >= 48 /\ c <= 57  -> c - 48
      [] c >= 97 /\ c <= 102 -> c - 87
      [] c >= 65 /\ c <= 70  -> c - 55
      [] OTHER -> -1

\* the character of a one-letter escape, -1 for an invalid escape
Unescape(e) ==
    CASE e = 34  -> 34
      [] e = 92  -> 92
      [] e = 47  -> 47
      [] e = 98  -> 8
      [] e = 102 -> 12
      [] e = 110 -> 10
      [] e = 114 -> 13
      [] e = 116 -> 9
      [] OTHER   -> -1

\* py_scanstring (strict) from index i, the character after the opening quote
RECURSIVE ScanString(_, _, _)
ScanString(s, i, acc) ==
    IF i > Len(s) THEN JsonFail
    ELSE IF s[i] = 34 THEN [ok |-> TRUE, pos |-> i + 1, val |-> acc]
    ELSE IF s[i] < 32 THEN JsonFail
    ELSE IF s[i] # 92 THEN ScanString(s, i + 1, Append(acc, s[i]))
    ELSE IF i + 1 > Len(s) THEN JsonFail
    ELSE IF s[i + 1] = 117 THEN
        IF i + 5 > Len(s) THEN JsonFail
        ELSE LET h1 == HexValue(s[i + 2])
                 h2 == HexValue(s[i + 3])
                 h3 == HexValue(s[i + 4])
                 h4 == HexValue(s[i + 5])
             IN IF h1 < 0 \/ h2 < 0 \/ h3 < 0 \/ h4 < 0 THEN JsonFail
                ELSE ScanString(s, i + 6,
                                Append(acc, h1 * 4096 + h2 * 256 + h3 * 16 + h4))
    ELSE IF Unescape(s[i + 1]) < 0 THEN JsonFail
    ELSE ScanString(s, i + 2, Append(acc, Unescape(s[i + 1])))

\* a member value: a string or null
ScanMember(s, i) ==
    IF i > Len(s) THEN JsonFail
    ELSE IF s[i] = 34 THEN ScanString(s, i + 1, << >>)
    ELSE IF i + 3 <= Len(s) /\ SubSeq(s, i, i + 3) = << 110, 117, 108, 108 >>
        THEN [ok |-> TRUE, pos |-> i + 4, val |-> None]
    ELSE JsonFail

DictPut(d, k, v) == [x \in DOMAIN d \cup {k} |-> IF x = k THEN v ELSE d[x]]

EmptyDict == [x \in {} |-> None]

\* JSONObject from index i, where a member's key must start; d holds the
\* members read so far (a repeated key keeps its last value)
RECURSIVE ScanMembers(_, _, _)
ScanMembers(s, i, d) ==
    IF i > Len(s) \/ s[i] # 34 THEN JsonFail
    ELSE LET k == ScanString(s, i + 1, << >>) IN
        IF ~k.ok THEN JsonFail
        ELSE LET c == SkipWs(s, k.pos) IN
            IF c > Len(s) \/ s[c] # 58 THEN JsonFail
            ELSE LET v == ScanMember(s, SkipWs(s, c + 1)) IN
                IF ~v.ok THEN JsonFail
                ELSE LET e == SkipWs(s, v.pos)
                         d2 == DictPut(d, k.val, v.val)
                     IN IF e > Len(s) THEN JsonFail
                        ELSE IF s[e] = 125
                            THEN [ok |-> TRUE, pos |-> e + 1, val |-> d2]
                        ELSE IF s[e] = 44
                            THEN ScanMembers(s, SkipWs(s, e + 1), d2)
                        ELSE JsonFail

\* json.loads(s): [kind, dict].  kind is "dict" for an object (dict maps each
\* key to its string or None), "other" for a string or null, "error" for a
\* JSONDecodeError.
JsonLoads(s) ==
    LET i == SkipWs(s, 1) IN
    IF i > Len(s) THEN [kind |-> "error", dict |-> EmptyDict]
    ELSE IF s[i] = 123 THEN
        LET j == SkipWs(s, i + 1)
            r == IF j <= Len(s) /\ s[j] = 125
                 THEN [ok |-> TRUE, pos |-> j + 1, val |-> EmptyDict]
                 ELSE ScanMembers(s, j, EmptyDict)
        IN IF r.ok /\ SkipWs(s, r.pos) > Len(s)
           THEN [kind |-> "dict", dict |-> r.val]
           ELSE [kind |-> "error", dict |-> EmptyDict]
    ELSE LET r == ScanMember(s, i) IN
        IF r.ok /\ SkipWs(s, r.pos) > Len(s)
        THEN [kind |-> "other", dict |-> EmptyDict]
        ELSE [kind |-> "error", dict |-> EmptyDict]

\* dict.get(key): None for a missing key
DictGet(d, k) == IF k \in DOMAIN d THEN d[k] ELSE None

\* ------------------------------------------------------------------------
\* Config.load_stored_credentials, lines 56-70, of a credentials file whose
\* content is `content` (None: the file does not exist).  Every exception of
\* lines 63-68 is caught at line 69.
LoadFromContent(content) ==
    IF content = None THEN << None, None >>
    ELSE LET decoded == B64Decode(Strip(content)) IN
        IF ~decoded.ok THEN << None, None >>
        ELSE LET text == Utf8Decode(decoded.bytes) IN
            IF ~text.ok THEN << None, None >>
            ELSE LET creds == JsonLoads(text.text) IN
                IF creds.kind # "dict" THEN << None, None >>
                ELSE << DictGet(creds.dict, KeyUsername),
                        DictGet(creds.dict, KeyPassword) >>

\* A resolution that prefers the stored file to the environment
GetAuthCredentialsStoredFirst(env_username, env_password, content) ==
    IF LoadFromContent(content) # << None, None >>
    THEN LoadFromContent(content)
    ELSE << env_username, env_password >>

\* Config.get_auth_credentials, lines 88-95, for the Config fields
\* auth_username and auth_password (read from KUMO_AUTH_USERNAME and
\* KUMO_AUTH_PASSWORD, None when unset) and the credentials file's content
GetAuthCredentials(env_username, env_password, content) ==
    IF Truthy(env_username) /\ Truthy(env_password)
    THEN << env_username, env_password >>
    ELSE LoadFromContent(content)

\* ------------------------------------------------------------------------
\* The overrides file devices.json.  Its content is [kind, devices]:
\*   "absent"     no file
\*   "invalid"    a text json.loads rejects
\*   "list"       a JSON text that is not an object, such as []
\*   "nodevices"  an object without the key "devices", such as {}
\*   "dict"       {"devices": {serial: {field: string}}}
\* devices maps each serial to its entry, an entry maps its fields
\* ("ip_address", "note") to strings.  json.dump (line 192) and json.loads
\* (lines 154, 180) are inverse on such documents, so the document stands for
\* its text.

NoDevices == [x \in {} |-> None]

\* HVACManager._load_local_config, lines 146-155: the exception it raises
\* ("none": it returns) and local_device_config afterwards
LoadLocalConfig(file) ==
    CASE file.kind = "absent"    -> [raised |-> "none", config |-> NoDevices]
      [] file.kind = "invalid"   -> [raised |-> "JSONDecodeError", config |-> NoDevices]
      [] file.kind = "list"      -> [raised |-> "AttributeError", config |-> NoDevices]
      [] file.kind = "nodevices" -> [raised |-> "none", config |-> NoDevices]
      [] OTHER                   -> [raised |-> "none", config |-> file.devices]

\* A merge that overwrites the address of every device the overrides name,
\* whether or not the entry has an ip_address
MergeDeviceConfigAnyEntry(devices, config) ==
    [i \in 1..Len(devices) |->
        IF devices[i].serial \in DOMAIN config
        THEN [devices[i] EXCEPT !.address =
                 IF "ip_address" \in DOMAIN config[devices[i].serial]
                 THEN config[devices[i].serial]["ip_address"] ELSE << >>]
        ELSE devices[i]]

\* HVACManager._merge_device_config, lines 157-170.  A device is
\* [serial, name, address]; address is PyKumo's _address, which every
\* device has.
MergeDeviceConfig(devices, config) ==
    [i \in 1..Len(devices) |->
        IF /\ devices[i].serial \in DOMAIN config
           /\ "ip_address" \in DOMAIN config[devices[i].serial]
        THEN [devices[i] EXCEPT !.address = config[devices[i].serial]["ip_address"]]
        ELSE devices[i]]

\* HVACManager.load_devices, lines 138-144, for the devices the cloud lists:
\* the exception raised ("none": it returns), devices and local_device_config
LoadDevices(listing, file) ==
    LET l == LoadLocalConfig(file) IN
    [raised |-> l.raised,
     devices |-> IF l.raised = "none" THEN MergeDeviceConfig(listing, l.config)
                 ELSE listing,
     config |-> l.config]

\* HVACManager.get_device_by_serial, lines 199-204: the index of the device
\* found, 0 for None
GetDeviceBySerial(devices, serial) ==
    LET found == {i \in 1..Len(devices) : devices[i].serial = serial} IN
    IF found = {} THEN 0 ELSE CHOOSE i \in found : \A j \in found : i <= j

\* str.lower() of an ASCII string
Lower(s) == [i \in 1..Len(s) |-> IF s[i] >= 65 /\ s[i] <= 90 THEN s[i] + 32 ELSE s[i]]

\* HVACManager.get_device_by_name, lines 206-211
GetDeviceByName(devices, name) ==
    LET found == {i \in 1..Len(devices) : Lower(devices[i].name) = Lower(name)} IN
    IF found = {} THEN 0 ELSE CHOOSE i \in found : \A j \in found : i <= j

\* HVACManager.list_devices_simple, lines 213-215
ListDevicesSimple(devices) ==
    [i \in 1..Len(devices) |-> << devices[i].serial, devices[i].name >>]

IsDigit(c) == c >= 48 /\ c <= 57

RECURSIVE DecimalValue(_, _)
DecimalValue(s, n) ==
    IF n = 0 THEN 0 ELSE DecimalValue(s, n - 1) * 10 + (s[n] - 48)

\* int(choice), line 382: optional surrounding whitespace, an optional sign
\* and ASCII decimal digits ([ok, val]; not ok is ValueError).  Digit
\* separators and non-ASCII digits occur in no input of the model.
ParseInt(s) ==
    LET t    == Strip(s)
        sign == IF Len(t) > 0 /\ t[1] \in {43, 45} THEN 1 ELSE 0
        d    == SubSeq(t, sign + 1, Len(t))
    IN IF Len(d) > 0 /\ \A i \in 1..Len(d) : IsDigit(d[i])
       THEN [ok |-> TRUE,
             val |-> IF sign = 1 /\ t[1] = 45 THEN 0 - DecimalValue(d, Len(d))
                     ELSE DecimalValue(d, Len(d))]
       ELSE [ok |-> FALSE, val |-> 0]

\* An index taken as int(choice), without the "- 1" of line 382
ChoiceIndexOffByOne(choice) == ParseInt(choice).val

\* index of line 382, for a choice int() accepts
ChoiceIndex(choice) == ParseInt(choice).val - 1

\* One alternative list of ip_pattern (line 413):
\*   25[0-5] | 2[0-4][0-9] | [01]?[0-9][0-9]?
MatchesOctet(t) ==
    \/ Len(t) = 3 /\ t[1] = 50 /\ t[2] = 53 /\ t[3] >= 48 /\ t[3] <= 53
    \/ Len(t) = 3 /\ t[1] = 50 /\ t[2] >= 48 /\ t[2] <= 52 /\ IsDigit(t[3])
    \/ Len(t) = 3 /\ t[1] \in {48, 49} /\ IsDigit(t[2]) /\ IsDigit(t[3])
    \/ Len(t) = 2 /\ IsDigit(t[1]) /\ IsDigit(t[2])
    \/ Len(t) = 1 /\ IsDigit(t[1])

\* the text between the dots: part k of s, whose dots are at the indices dots
DotPart(s, dots, k) ==
    SubSeq(s, IF k = 1 THEN 1 ELSE dots[k - 1] + 1,
              IF k > Len(dots) THEN Len(s) ELSE dots[k] - 1)

\* (?:octet\.){3}octet  over the whole of s: an octet holds no dot, so s must
\* have exactly three dots with an octet in each of the four places
MatchesQuad(s) ==
    LET idx  == SelectSeq([i \in 1..Len(s) |-> i], LAMBDA i : s[i] = 46) IN
    /\ Len(idx) = 3
    /\ \A k \in 1..4 : MatchesOctet(DotPart(s, idx, k))

\* re.match(ip_pattern, s), lines 413-414: ^ at the start, and $ at the end
\* of the string or just before a newline that ends it
IpPatternMatches(s) ==
    \/ MatchesQuad(s)
    \/ Len(s) > 0 /\ s[Len(s)] = 10 /\ MatchesQuad(SubSeq(s, 1, Len(s) - 1))

\* dict upsert of lines 185-188
PutIp(devices, serial, ip) ==
    [t \in DOMAIN devices \cup {serial} |->
        IF t # serial THEN devices[t]
        ELSE LET old == IF serial \in DOMAIN devices THEN devices[serial]
                        ELSE [f \in {} |-> << >>]
             IN [f \in DOMAIN old \cup {"ip_address"} |->
                    IF f = "ip_address" THEN ip ELSE old[f]]]

\* A store that writes a document holding only the new entry
StoreDeviceIpFresh(file, device_serial, ip_address) ==
    [raised |-> "none",
     file |-> [kind |-> "dict",
               devices |-> PutIp(NoDevices, device_serial, ip_address)]]

\* HVACManager.store_device_ip, lines 172-197: the exception raised and the
\* file afterwards
StoreDeviceIp(file, device_serial, ip_address) ==
    CASE file.kind = "absent" ->
            [raised |-> "none",
             file |-> [kind |-> "dict",
                       devices |-> PutIp(NoDevices, device_serial, ip_address)]]
      [] file.kind = "invalid"   -> [raised |-> "JSONDecodeError", file |-> file]
      [] file.kind = "list"      -> [raised |-> "TypeError", file |-> file]
      [] file.kind = "nodevices" -> [raised |-> "KeyError", file |-> file]
      [] OTHER ->
            [raised |-> "none",
             file |-> [kind |-> "dict",
                       devices |-> PutIp(file.devices, device_serial, ip_address)]]

\* ------------------------------------------------------------------------
\* State

VARIABLES
    credFile,       \* content of <data_dir>/.credentials, None when absent
    credMode,       \* its permission bits: "none", "umask" or "0600"
    auth_username,  \* Config.auth_username (KUMO_AUTH_USERNAME)
    auth_password,  \* Config.auth_password (KUMO_AUTH_PASSWORD)
    devFile,        \* content of <data_dir>/devices.json
    cloud,          \* the devices the cloud account lists, in order
    pc,             \* position of the running command
    call,           \* the running or last command: arguments, locals, result
    writer,         \* locals of a store_credentials that is under way
    lastStore,      \* arguments of the last completed store_credentials
    stores,         \* number of completed store_credentials calls
    lastIp,         \* per serial, the ip of the last successful store_device_ip
    cmds            \* number of commands run

vars == << credFile, credMode, auth_username, auth_password, devFile, cloud,
           pc, call, writer, lastStore, stores, lastIp, cmds >>

credVars == << credFile, credMode, auth_username, auth_password >>
devVars == << devFile, cloud, lastIp, cmds >>

NoCall == [op |-> "none"]
NoWriter == [username |-> None, password |-> None, encoded_data |-> << >>,
             written |-> 0]

\* ------------------------------------------------------------------------
\* Bounds and inputs of the credential store

\* longest username and password of the round trip
MaxLen == 2
\* stores in a row in the round trip
MaxStores == 2

\* a plain letter, space, double quote, backslash, e-acute
Chars == {97, 32, 34, 92, 233}

Strs(n) == UNION {[1..k -> Chars] : k \in 0..n}

\* "alice" / "hunter2", "bob" / "pw"
FewCreds ==
    { << << 97, 108, 105, 99, 101 >>, << 104, 117, 110, 116, 101, 114, 50 >> >>,
      << << 98, 111, 98 >>, << 112, 119 >> >> }

\* Contents of a credentials file no store_credentials wrote:
\*   "!!!"            (no base64 data, decodes to no bytes)
\*   "ImFiYyI="       base64 of the JSON string "abc"      (not an object)
\*   "eyJ1c2VybmFtZSI6ICJzdSI="  base64 of {"username": "su"  (cut short)
\*   "eyJ1c2Vy"       a file cut inside a base64 quad's data
\*   ""               an empty file
CorruptFiles ==
    { << 33, 33, 33 >>,
      << 73, 109, 70, 105, 89, 121, 73, 61 >>,
      << 101, 121, 74, 49, 99, 50, 86, 121, 98, 109, 70, 116, 90, 83, 73, 54,
         73, 67, 74, 122, 100, 83, 73, 61 >>,
      << 101, 121, 74, 49, 99, 50, 86, 121, 98 >>,
      << >> }

\* ------------------------------------------------------------------------
\* Config.store_credentials, lines 72-86, as one step: the file holds the
\* encoded pair, with owner-only permissions
StoreCredentials(username, password) ==
    /\ credFile' = EncodeCreds(username, password)
    /\ credMode' = "0600"

\* ------------------------------------------------------------------------
\* The round trip: stores, then loads, by one process at a time

InitRT ==
    /\ credFile \in {None} \cup CorruptFiles
    /\ credMode = IF credFile = None THEN "none" ELSE "0600"
    /\ auth_username = None
    /\ auth_password = None
    /\ devFile = [kind |-> "absent", devices |-> NoDevices]
    /\ cloud = << >>
    /\ lastIp = NoDevices
    /\ cmds = 0
    /\ pc = "idle"
    /\ call = NoCall
    /\ writer = NoWriter
    /\ lastStore = << None, None >>
    /\ stores = 0

\* store_credentials(u, p) of an earlier login
StoreFew ==
    /\ stores + 1 < MaxStores
    /\ \E c \in FewCreds :
         /\ StoreCredentials(c[1], c[2])
         /\ lastStore' = c
         /\ call' = [op |-> "store_credentials", username |-> c[1], password |-> c[2]]
    /\ stores' = stores + 1
    /\ UNCHANGED << auth_username, auth_password, devVars, pc, writer >>

\* store_credentials(u, p) for any username and password
StoreAny ==
    /\ stores + 1 = MaxStores
    /\ \E u \in Strs(MaxLen), p \in Strs(MaxLen) :
         /\ StoreCredentials(u, p)
         /\ lastStore' = << u, p >>
         /\ call' = [op |-> "store_credentials", username |-> u, password |-> p]
    /\ stores' = stores + 1
    /\ UNCHANGED << auth_username, auth_password, devVars, pc, writer >>

\* load_stored_credentials()
LoadStoredCredentials ==
    /\ call' = [op |-> "load_stored_credentials", ret |-> LoadFromContent(credFile)]
    /\ UNCHANGED << credVars, devVars, pc, writer, lastStore, stores >>

NextRT == StoreFew \/ StoreAny \/ LoadStoredCredentials

SpecRT == InitRT /\ [][NextRT]_vars

\* ------------------------------------------------------------------------
\* Credential resolution: get_auth_credentials and the login command

\* the strings "au", "op", "su", "sp", "eu", "ep", "pu", "pp": the username
\* argument, the --password option, the stored pair, the environment pair and
\* the answers to the prompts
ArgUser == << 97, 117 >>
OptPass == << 111, 112 >>
StoredUser == << 115, 117 >>
StoredPass == << 115, 112 >>
EnvUser == << 101, 117 >>
EnvPass == << 101, 112 >>
PromptUser == << 112, 117 >>
PromptPass == << 112, 112 >>

\* "eyJ1c2VybmFtZSI6ICJzdSJ9": base64 of {"username": "su"}, an object
\* without a password
PartialFile ==
    << 101, 121, 74, 49, 99, 50, 86, 121, 98, 109, 70, 116, 90, 83, 73, 54,
       73, 67, 74, 122, 100, 83, 74, 57 >>

InitAuth ==
    /\ credFile \in {None, PartialFile, EncodeCreds(StoredUser, StoredPass)}
                      \cup CorruptFiles
    /\ credMode = IF credFile = None THEN "none" ELSE "0600"
    /\ auth_username \in {None, << >>, EnvUser}
    /\ auth_password \in {None, << >>, EnvPass}
    /\ devFile = [kind |-> "absent", devices |-> NoDevices]
    /\ cloud = << >>
    /\ lastIp = NoDevices
    /\ cmds = 0
    /\ pc = "idle"
    /\ call = NoCall
    /\ writer = NoWriter
    /\ lastStore = << None, None >>
    /\ stores = 0

\* a call of Config.get_auth_credentials (lines 88-95)
GetAuthCredentialsCall ==
    /\ call' = [op |-> "get_auth_credentials",
                ret |-> GetAuthCredentials(auth_username, auth_password, credFile)]
    /\ UNCHANGED << credVars, devVars, pc, writer, lastStore, stores >>

\* The value Typer hands to login for --password (line 222: prompt=True,
\* hide_input=True): the option's value when the command line gives one, else
\* the answer to a hidden prompt that is asked before the body runs.
PasswordOption(password_opt, answer) ==
    IF password_opt = None THEN answer ELSE password_opt

\* The login command, lines 218-253.  username_arg and password_opt are the
\* command line's values (None: not given), the answers are what the user
\* types at a prompt (never empty: the prompt asks again), and auth_ok is
\* whether KumoCloudAccount.Factory (line 244) returns rather than raises.
Login(username_arg, password_opt, answer_user, answer_pass, auth_ok) ==
    \E stored \in {LoadFromContent(credFile)} :
    LET password0 == PasswordOption(password_opt, answer_pass)
        \* lines 227-229
        username1 == IF ~Truthy(username_arg)
                     THEN Or(Or(username_arg, stored[1]), auth_username)
                     ELSE username_arg
        \* lines 235-237
        password1 == IF ~Truthy(password0)
                     THEN Or(Or(password0, stored[2]), auth_password)
                     ELSE password0
    IN \E username \in {IF ~Truthy(username1) THEN answer_user ELSE username1},
          password \in {IF ~Truthy(password1) THEN answer_pass ELSE password1} :
       \* username: lines 231-232; password: lines 239-240
       /\ call' = [op |-> "login",
                   username_arg |-> username_arg,
                   password_opt |-> password_opt,
                   file_before |-> credFile,
                   username |-> username,
                   password |-> password,
                   prompted_username |-> ~Truthy(username1),
                   prompted_password |-> password_opt = None \/ ~Truthy(password1),
                   exit |-> IF auth_ok THEN 0 ELSE 1]
       /\ IF auth_ok
          THEN /\ StoreCredentials(username, password)
               /\ lastStore' = << username, password >>
               /\ stores' = IF stores < MaxStores THEN stores + 1 ELSE stores
          ELSE UNCHANGED << credFile, credMode, lastStore, stores >>
       /\ UNCHANGED << auth_username, auth_password, devVars, pc, writer >>

LoginCall ==
    \E username_arg \in {None, << >>, ArgUser},
       password_opt \in {None, << >>, OptPass},
       auth_ok \in BOOLEAN :
        Login(username_arg, password_opt, PromptUser, PromptPass, auth_ok)

NextAuth == GetAuthCredentialsCall \/ LoginCall

SpecAuth == InitAuth /\ [][NextAuth]_vars

\* the pairs a credentials file of SpecAuth can hold after a store
AuthNames ==
    {ArgUser, OptPass, StoredUser, StoredPass, EnvUser, EnvPass, PromptUser,
     PromptPass}

\* C1: get_auth_credentials returns the environment pair when both
\* KUMO_AUTH_USERNAME and KUMO_AUTH_PASSWORD are set (non-empty); otherwise
\* the pair of a well-formed credentials file; otherwise, with the file
\* missing or corrupt, (None, None).  It returns in every case.
C1_Precedence ==
    call.op = "get_auth_credentials" =>
        IF Truthy(auth_username) /\ Truthy(auth_password)
        THEN call.ret = << auth_username, auth_password >>
        ELSE /\ credFile \in {None} \cup CorruptFiles
                  => call.ret = << None, None >>
             /\ \A u \in AuthNames, p \in AuthNames :
                  credFile = EncodeCreds(u, p) => call.ret = << u, p >>
             /\ credFile = PartialFile => call.ret = << StoredUser, None >>
             /\ \/ credFile \in {None, PartialFile} \cup CorruptFiles
                \/ \E u \in AuthNames, p \in AuthNames :
                     credFile = EncodeCreds(u, p)

\* get_auth_credentials has returned the environment pair although a
\* well-formed file holds another pair
C1_WitnessEnv ==
    /\ call.op = "get_auth_credentials"
    /\ credFile = EncodeCreds(StoredUser, StoredPass)
    /\ call.ret = << EnvUser, EnvPass >>

\* C9: login takes the username from the argument, else the stored file,
\* else the environment, else a prompt, and the password from --password,
\* else the stored file, else the environment, else a hidden prompt; it
\* prompts for a value only when none of the three sources gives one.
C9_LoginResolution ==
    call.op = "login" =>
        \A stored \in {LoadFromContent(call.file_before)} :
        LET wantU  == Or(Or(call.username_arg, stored[1]), auth_username)
            wantP  == Or(Or(call.password_opt, stored[2]), auth_password)
        IN /\ call.prompted_username = ~Truthy(wantU)
           /\ Truthy(wantU) => call.username = wantU
           /\ call.prompted_password = ~Truthy(wantP)
           /\ Truthy(wantP) => call.password = wantP

\* ------------------------------------------------------------------------
\* store_credentials step by step, with a load by another invocation of the
\* command at any point (the two processes share only the file)

\* "carol" / "s3"
ThirdCreds == << << 99, 97, 114, 111, 108 >>, << 115, 51 >> >>

InitConc ==
    /\ \E c \in FewCreds :
         /\ credFile = EncodeCreds(c[1], c[2])
         /\ lastStore = c
    /\ credMode = "0600"
    /\ auth_username = None
    /\ auth_password = None
    /\ devFile = [kind |-> "absent", devices |-> NoDevices]
    /\ cloud = << >>
    /\ lastIp = NoDevices
    /\ cmds = 0
    /\ pc = "idle"
    /\ call = NoCall
    /\ writer = NoWriter
    /\ stores = 1

\* lines 74-80: the directory exists, encoded_data is computed
StoreBegin ==
    /\ pc = "idle"
    /\ \E c \in FewCreds \cup {ThirdCreds} :
         writer' = [username |-> c[1], password |-> c[2],
                    encoded_data |-> EncodeCreds(c[1], c[2]), written |-> 0]
    /\ pc' = "open"
    /\ UNCHANGED << credVars, devVars, call, lastStore, stores >>

\* line 82: open(creds_file, "w") creates the file or truncates it to nothing
StoreOpen ==
    /\ pc = "open"
    /\ credFile' = << >>
    /\ credMode' = IF credFile = None THEN "umask" ELSE credMode
    /\ pc' = "write"
    /\ UNCHANGED << auth_username, auth_password, devVars, call, writer,
                    lastStore, stores >>

\* line 83 and the end of the with block: the buffered text reaches the file
\* when it is closed, in one write or, after a short write, in several
StoreWrite ==
    /\ pc = "write"
    /\ \E k \in (writer.written + 1)..Len(writer.encoded_data) :
         /\ credFile' = SubSeq(writer.encoded_data, 1, k)
         /\ writer' = [writer EXCEPT !.written = k]
         /\ pc' = IF k = Len(writer.encoded_data) THEN "chmod" ELSE "write"
    /\ UNCHANGED << credMode, auth_username, auth_password, devVars, call,
                    lastStore, stores >>

\* line 86: os.chmod(creds_file, 0o600), and the call returns
StoreChmod ==
    /\ pc = "chmod"
    /\ credMode' = "0600"
    /\ lastStore' = << writer.username, writer.password >>
    /\ stores' = IF stores < MaxStores THEN stores + 1 ELSE stores
    /\ pc' = "idle"
    /\ writer' = NoWriter
    /\ UNCHANGED << credFile, auth_username, auth_password, devVars, call >>

\* load_stored_credentials (lines 56-70) in another process: old is the pair
\* of the last completed store, new the pair of the store under way
ConcurrentLoad ==
    /\ call' = [op |-> "load_stored_credentials",
                ret |-> LoadFromContent(credFile),
                during |-> pc,
                old |-> lastStore,
                new |-> << writer.username, writer.password >>]
    /\ UNCHANGED << credVars, devVars, pc, writer, lastStore, stores >>

NextConc == StoreBegin \/ StoreOpen \/ StoreWrite \/ StoreChmod \/ ConcurrentLoad

SpecConc == InitConc /\ [][NextConc]_vars

\* C2: a load that runs while store_credentials overwrites the file returns
\* the pair stored before or the pair being stored, never (None, None) or a
\* mixture.
C2_ReaderSeesOldOrNew ==
    (call.op = "load_stored_credentials" /\ call.during # "idle")
        => call.ret \in {call.old, call.new}

\* ------------------------------------------------------------------------
\* The device directory and the commands list and store_device_ip

\* commands in a row
MaxCmds == 2

\* serials "S1", "S2", "2" and "S9" (a device that is offline); names "2",
\* "Den", "den"; cloud addresses "c1", "c2", "c3"
CloudDevices ==
    { [serial |-> << 83, 49 >>, name |-> << 50 >>, address |-> << 99, 49 >>],
      [serial |-> << 83, 50 >>, name |-> << 68, 101, 110 >>, address |-> << 99, 50 >>],
      [serial |-> << 50 >>, name |-> << 100, 101, 110 >>, address |-> << 99, 51 >>] }

OfflineSerial == << 83, 57 >>

\* every order of every subset of the devices: what make_pykumos (line 140)
\* may return, each serial once
Listings ==
    {l \in UNION {[1..n -> CloudDevices] : n \in 0..Cardinality(CloudDevices)} :
        \A i, j \in 1..Len(l) : i # j => l[i] # l[j]}

\* "192.168.1.1", "10.0.0.5"
IpA == << 49, 57, 50, 46, 49, 54, 56, 46, 49, 46, 49 >>
IpB == << 49, 48, 46, 48, 46, 48, 46, 53 >>

\* ip_address arguments: IpA, IpB, "256.1.1.1", "1.2.3", "abc", "01.2.3.4",
\* "1.2.3.4.5" and IpA followed by a newline
IpArgs ==
    { IpA, IpB,
      << 50, 53, 54, 46, 49, 46, 49, 46, 49 >>,
      << 49, 46, 50, 46, 51 >>,
      << 97, 98, 99 >>,
      << 48, 49, 46, 50, 46, 51, 46, 52 >>,
      << 49, 46, 50, 46, 51, 46, 52, 46, 53 >>,
      IpA \o << 10 >> }

\* answers to the ip prompt (a line, without its newline): IpB, "1.2.3"
IpAnswers == { IpB, << 49, 46, 50, 46, 51 >> }

\* device_identifier arguments: "2", "S2", "DEN", "x"
Identifiers == { << 50 >>, << 83, 50 >>, << 68, 69, 78 >>, << 120 >> }

\* answers to the selection prompt: "1", "2", "3", "4", "0", " 2 ", "S1",
\* "den", "x"
Choices ==
    { << 49 >>, << 50 >>, << 51 >>, << 52 >>, << 48 >>, << 32, 50, 32 >>,
      << 83, 49 >>, << 100, 101, 110 >>, << 120 >> }

Note == << 110 >>

Entry(ip) == [f \in {"ip_address"} |-> ip]
NoteEntry == [f \in {"note"} |-> Note]
BothEntry(ip) == [f \in {"ip_address", "note"} |-> IF f = "note" THEN Note ELSE ip]

InitDevFiles ==
    { [kind |-> "absent", devices |-> NoDevices],
      [kind |-> "invalid", devices |-> NoDevices],
      [kind |-> "list", devices |-> NoDevices],
      [kind |-> "nodevices", devices |-> NoDevices],
      [kind |-> "dict", devices |-> NoDevices],
      [kind |-> "dict", devices |-> [t \in {<< 83, 49 >>} |-> Entry(IpB)]],
      [kind |-> "dict", devices |-> [t \in {<< 83, 49 >>} |-> NoteEntry]],
      [kind |-> "dict", devices |-> [t \in {OfflineSerial} |-> Entry(IpA)]],
      [kind |-> "dict",
       devices |-> [t \in {<< 83, 50 >>, OfflineSerial} |->
                       IF t = OfflineSerial THEN Entry(IpB) ELSE BothEntry(IpA)]] }

\* HVACManager.create_with_auth, lines 119-136: "ok", or why it exits 1.
\* auth_ok is whether KumoCloudAccount.Factory (line 132) returns.
CreateWithAuth(creds, auth_ok) ==
    IF ~Truthy(creds[1]) \/ ~Truthy(creds[2]) THEN "no_credentials"
    ELSE IF ~auth_ok THEN "auth_failed"
    ELSE "ok"

\* store_device_ip, lines 358-390: the identifier the lookup uses
\* ([ok, identifier]; not ok is typer.Exit(1)).  choice is the answer to the
\* selection prompt, asked when no identifier is given.
ResolveIdentifier(devices, device_identifier, choice) ==
    IF Truthy(device_identifier) THEN [ok |-> TRUE, identifier |-> device_identifier]
    ELSE IF Len(devices) = 0 THEN [ok |-> FALSE, identifier |-> None]
    ELSE IF ParseInt(choice).ok
        THEN IF 0 <= ChoiceIndex(choice) /\ ChoiceIndex(choice) < Len(devices)
             THEN [ok |-> TRUE,
                   identifier |-> ListDevicesSimple(devices)[ChoiceIndex(choice) + 1][1]]
             ELSE [ok |-> FALSE, identifier |-> None]
    ELSE [ok |-> TRUE, identifier |-> choice]

\* lines 392-395: by serial, then by name (an index, 0 for None)
FindDevice(devices, identifier) ==
    IF GetDeviceBySerial(devices, identifier) # 0
    THEN GetDeviceBySerial(devices, identifier)
    ELSE GetDeviceByName(devices, identifier)

\* The store_device_ip command, lines 347-422, once create_with_auth has
\* returned a manager.  The result tells what the command did:
\*   exit        the exit status
\*   raised      the exception that ended it with a traceback, or "none"
\*   devices, config   manager.devices and manager.local_device_config
\*   identifier  the identifier looked up (None: none was)
\*   selected    the serial of the device found (None: none was)
\*   ip          the ip address validated (None: none was)
\*   stored      whether HVACManager.store_device_ip returned
\*   file        devices.json afterwards
StoreDeviceIpCommand(listing, file, device_identifier, ip_address, choice, ip_answer) ==
    LET ld   == LoadDevices(listing, file)
        base == [exit |-> 1, raised |-> ld.raised, devices |-> ld.devices,
                 config |-> ld.config, identifier |-> None, selected |-> None,
                 ip |-> None, stored |-> FALSE, file |-> file]
        res  == ResolveIdentifier(ld.devices, device_identifier, choice)
        i    == FindDevice(ld.devices, res.identifier)
        ip   == IF Truthy(ip_address) THEN ip_address ELSE ip_answer
        st   == StoreDeviceIp(file, ld.devices[i].serial, ip)
    IN IF ld.raised # "none" THEN base
       ELSE IF ~res.ok THEN base
       ELSE IF i = 0 THEN [base EXCEPT !.identifier = res.identifier]
       ELSE IF ~IpPatternMatches(ip)
           THEN [base EXCEPT !.identifier = res.identifier,
                             !.selected = ld.devices[i].serial, !.ip = ip]
       ELSE [base EXCEPT !.identifier = res.identifier,
                         !.selected = ld.devices[i].serial, !.ip = ip,
                         !.raised = st.raised,
                         !.exit = IF st.raised = "none" THEN 0 ELSE 1,
                         !.stored = st.raised = "none",
                         !.file = st.file]

InitDev ==
    /\ credFile = None
    /\ credMode = "none"
    /\ auth_username \in {None, EnvUser}
    /\ auth_password = EnvPass
    /\ devFile \in InitDevFiles
    /\ cloud \in Listings
    /\ pc = "idle"
    /\ call = NoCall
    /\ writer = NoWriter
    /\ lastStore = << None, None >>
    /\ stores = 0
    /\ lastIp = NoDevices
    /\ cmds = 0

\* a command that create_with_auth ends: no credentials, or the login fails
CommandWithoutAuth ==
    /\ pc = "idle"
    /\ cmds < MaxCmds
    /\ \E auth_ok \in BOOLEAN, op \in {"list", "store_device_ip"} :
       \E auth \in {CreateWithAuth(
                       GetAuthCredentials(auth_username, auth_password, credFile),
                       auth_ok)} :
         /\ auth # "ok"
         /\ call' = [op |-> op, auth |-> auth, exit |-> 1, raised |-> "none",
                     file_before |-> devFile]
    /\ pc' = "done"
    /\ cmds' = cmds + 1
    /\ UNCHANGED << credVars, devFile, cloud, lastIp, writer, lastStore, stores >>

\* store_device_ip [device_identifier] [ip_address]; the prompts are answered
\* with choice and ip_answer when they are asked
StoreDeviceIpCmd ==
    /\ pc = "idle"
    /\ cmds < MaxCmds
    /\ CreateWithAuth(GetAuthCredentials(auth_username, auth_password, credFile),
                      TRUE) = "ok"
    /\ \E device_identifier \in Identifiers \cup {None},
          ip_address \in IpArgs \cup {None} :
       \E choice \in IF device_identifier = None THEN Choices ELSE {None},
          ip_answer \in IF ip_address = None THEN IpAnswers ELSE {None} :
       \E r \in {StoreDeviceIpCommand(cloud, devFile, device_identifier,
                                      ip_address, choice, ip_answer)} :
         /\ call' = [op |-> "store_device_ip", auth |-> "ok",
                     device_identifier |-> device_identifier,
                     ip_address |-> ip_address,
                     choice |-> choice,
                     file_before |-> devFile,
                     exit |-> r.exit, raised |-> r.raised,
                     devices |-> r.devices, config |-> r.config,
                     identifier |-> r.identifier, selected |-> r.selected,
                     ip |-> r.ip, stored |-> r.stored]
         /\ devFile' = r.file
         /\ lastIp' = IF r.stored
                      THEN [t \in DOMAIN lastIp \cup {r.selected} |->
                               IF t = r.selected THEN r.ip ELSE lastIp[t]]
                      ELSE lastIp
    /\ pc' = "done"
    /\ cmds' = cmds + 1
    /\ UNCHANGED << credVars, cloud, writer, lastStore, stores >>

\* list (not verbose), lines 256-268 and 340-344: the numbered names
ListCmd ==
    /\ pc = "idle"
    /\ cmds < MaxCmds
    /\ CreateWithAuth(GetAuthCredentials(auth_username, auth_password, credFile),
                      TRUE) = "ok"
    /\ \E ld \in {LoadDevices(cloud, devFile)} :
         call' = [op |-> "list", auth |-> "ok",
                  file_before |-> devFile,
                  exit |-> IF ld.raised = "none" THEN 0 ELSE 1,
                  raised |-> ld.raised,
                  devices |-> ld.devices, config |-> ld.config,
                  output |-> IF ld.raised = "none"
                             THEN [i \in 1..Len(ld.devices) |-> << i, ld.devices[i].name >>]
                             ELSE << >>]
    /\ pc' = "done"
    /\ cmds' = cmds + 1
    /\ UNCHANGED << credVars, devFile, cloud, lastIp, writer, lastStore, stores >>

\* the command's process ends
Exit ==
    /\ pc = "done"
    /\ pc' = "idle"
    /\ call' = NoCall
    /\ UNCHANGED << credVars, devVars, writer, lastStore, stores >>

NextDev == CommandWithoutAuth \/ StoreDeviceIpCmd \/ ListCmd \/ Exit

SpecDev == InitDev /\ [][NextDev]_vars

\* ------------------------------------------------------------------------
\* list --verbose, one step per table row

\* the cells the table shows: "N/A", "Error", and a device's telemetry
\* "72°F", "cool", "auto", "on", "-50dBm"
NA == << 78, 47, 65 >>
ErrorCell == << 69, 114, 114, 111, 114 >>
TempCell == << 55, 50, 176, 70 >>
ModeCell == << 99, 111, 111, 108 >>
FanCell == << 97, 117, 116, 111 >>
StatusCell == << 111, 110 >>
WifiCell == << 45, 53, 48, 100, 66, 109 >>

\* What the accessors of one device do when its row is built: "value" (a
\* truthy value), "none" (None) or "raise".  get_name_again is the call of
\* line 329.
Outcomes ==
    [get_name : {"value"}, get_name_again : {"value"},
     update_status : {"value", "raise"},
     get_current_temperature : {"value", "none", "raise"},
     get_mode : {"value", "none", "raise"},
     get_fan_speed : {"value", "raise"},
     get_runstate : {"value", "raise"},
     get_wifi_rssi : {"value", "none", "raise"}]
    \cup
    [get_name : {"raise"}, get_name_again : {"value", "raise"},
     update_status : {"value"}, get_current_temperature : {"value"},
     get_mode : {"value"}, get_fan_speed : {"value"},
     get_runstate : {"value"}, get_wifi_rssi : {"value"}]

NoOutcome == [f \in {} |-> "value"]

\* the loop body, lines 286-337: the row added, or the exception of line 329
VerboseRow(device, config, o) ==
    IF o.get_name = "raise"
    THEN [raised |-> o.get_name_again = "raise",
          row |-> [name |-> device.name, serial |-> device.serial,
                   temperature |-> ErrorCell, mode |-> ErrorCell,
                   fan_speed |-> ErrorCell, status |-> ErrorCell,
                   wifi |-> ErrorCell, ip_address |-> ErrorCell]]
    ELSE LET temp_ok == /\ o.update_status = "value"
                        /\ o.get_current_temperature = "value"
             rest_ok == /\ o.get_mode # "raise"
                        /\ o.get_fan_speed # "raise"
                        /\ o.get_runstate # "raise"
                        /\ o.get_wifi_rssi # "raise"
         IN [raised |-> FALSE,
             row |-> [name |-> device.name, serial |-> device.serial,
                      temperature |-> IF temp_ok THEN TempCell ELSE NA,
                      mode |-> IF rest_ok /\ o.get_mode = "value"
                               THEN ModeCell ELSE NA,
                      fan_speed |-> IF rest_ok /\ o.get_fan_speed = "value"
                                    THEN FanCell ELSE NA,
                      status |-> IF rest_ok /\ o.get_runstate = "value"
                                 THEN StatusCell ELSE NA,
                      wifi |-> IF rest_ok /\ o.get_wifi_rssi = "value"
                               THEN WifiCell ELSE NA,
                      ip_address |->
                          IF /\ device.serial \in DOMAIN config
                             /\ "ip_address" \in DOMAIN config[device.serial]
                          THEN config[device.serial]["ip_address"] ELSE NA]]

InitList ==
    /\ credFile = None
    /\ credMode = "none"
    /\ auth_username = EnvUser
    /\ auth_password = EnvPass
    /\ devFile \in {f \in InitDevFiles :
                       f.kind = "dict" /\ OfflineSerial \notin DOMAIN f.devices}
    /\ cloud \in {l \in Listings : Len(l) <= 2}
    /\ pc = "idle"
    /\ call = NoCall
    /\ writer = NoWriter
    /\ lastStore = << None, None >>
    /\ stores = 0
    /\ lastIp = NoDevices
    /\ cmds = 0

\* lines 263-283: the manager, the devices, the empty table
ListVerboseBegin ==
    /\ pc = "idle"
    /\ \E auth_ok \in BOOLEAN :
       \E auth \in {CreateWithAuth(
                       GetAuthCredentials(auth_username, auth_password, credFile),
                       auth_ok)},
          ld \in {LoadDevices(cloud, devFile)} :
         /\ call' = [op |-> "list_verbose", auth |-> auth,
                     file_before |-> devFile,
                     exit |-> IF auth = "ok" /\ ld.raised = "none" THEN 0 ELSE 1,
                     raised |-> IF auth = "ok" THEN ld.raised ELSE "none",
                     devices |-> IF auth = "ok" THEN ld.devices ELSE << >>,
                     config |-> IF auth = "ok" THEN ld.config ELSE NoDevices,
                     table |-> << >>, outcome |-> NoOutcome, printed |-> FALSE]
         /\ pc' = IF auth = "ok" /\ ld.raised = "none" /\ Len(ld.devices) > 0
                  THEN "rows" ELSE "done"
    /\ UNCHANGED << credVars, devVars, writer, lastStore, stores >>

\* lines 285-337 for the next device
ListVerboseRow ==
    /\ pc = "rows"
    /\ Len(call.table) < Len(call.devices)
    /\ \E o \in Outcomes :
       \E r \in {VerboseRow(call.devices[Len(call.table) + 1], call.config, o)} :
         IF r.raised
         THEN /\ call' = [call EXCEPT !.outcome = o, !.exit = 1,
                                      !.raised = "Exception"]
              /\ pc' = "done"
         ELSE /\ call' = [call EXCEPT !.outcome = o,
                                      !.table = Append(call.table, r.row)]
              /\ pc' = "rows"
    /\ UNCHANGED << credVars, devVars, writer, lastStore, stores >>

\* line 339
ListVerbosePrint ==
    /\ pc = "rows"
    /\ Len(call.table) = Len(call.devices)
    /\ call' = [call EXCEPT !.printed = TRUE]
    /\ pc' = "done"
    /\ UNCHANGED << credVars, devVars, writer, lastStore, stores >>

NextList == ListVerboseBegin \/ ListVerboseRow \/ ListVerbosePrint \/ Exit

SpecList == InitList /\ [][NextList]_vars

\* C10: a load after one or more stores, with no store in between, returns
\* exactly the username and password of the most recent store, whatever
\* characters they hold (quotes, backslashes, spaces, non-ASCII).
C10_RoundTrip ==
    (call.op = "load_stored_credentials" /\ stores > 0) => call.ret = lastStore

\* a load after MaxStores stores, the last of a username with a double quote
\* and a password with a non-ASCII character and a space
C10_Witness ==
    /\ call.op = "load_stored_credentials"
    /\ stores = MaxStores
    /\ call.ret = lastStore
    /\ \E i \in 1..Len(lastStore[1]) : lastStore[1][i] = 34
    /\ \E i \in 1..Len(lastStore[2]) : lastStore[2][i] = 233
    /\ \E i \in 1..Len(lastStore[2]) : lastStore[2][i] = 32

\* ------------------------------------------------------------------------
\* Properties of the device directory (SpecDev) and of list --verbose
\* (SpecList)

\* the overrides map a file holds; an absent file holds none
Overrides(file) == IF file.kind = "dict" THEN file.devices ELSE NoDevices

\* a command that got past create_with_auth
Ran(op) == call.op = op /\ call.auth = "ok"

S2File ==
    [kind |-> "dict",
     devices |-> [t \in {<< 83, 50 >>, OfflineSerial} |->
                     IF t = OfflineSerial THEN Entry(IpB) ELSE BothEntry(IpA)]]

\* C3: after load_devices, over a well-formed or absent overrides file, every
\* device the cloud listed is there in the same order; its address is the
\* override's ip_address when its serial has an entry with one, and the
\* address the cloud reported otherwise; entries for serials that are not
\* listed change nothing and raise nothing.
C3_MergeBySerial ==
    ((Ran("list") \/ Ran("store_device_ip"))
        /\ call.file_before.kind \in {"absent", "dict"})
    => /\ call.raised = "none"
       /\ Len(call.devices) = Len(cloud)
       /\ \A i \in 1..Len(cloud) :
            /\ call.devices[i].serial = cloud[i].serial
            /\ call.devices[i].name = cloud[i].name
            /\ call.devices[i].address =
                 IF /\ cloud[i].serial \in DOMAIN Overrides(call.file_before)
                    /\ "ip_address" \in
                           DOMAIN Overrides(call.file_before)[cloud[i].serial]
                 THEN Overrides(call.file_before)[cloud[i].serial]["ip_address"]
                 ELSE cloud[i].address

\* list over three devices, one overridden, with an entry for an offline one
C3_Witness ==
    /\ Ran("list")
    /\ call.file_before = S2File
    /\ Len(cloud) = 3
    /\ call.exit = 0
    /\ \E i \in 1..3 : call.devices[i].address = IpA
    /\ \E i \in 1..3 : call.devices[i].address = cloud[i].address

\* a dotted quad: four parts of one to three decimal digits, each at most 255
Parts(s) ==
    LET dots == << 0 >> \o SelectSeq([i \in 1..Len(s) |-> i], LAMBDA i : s[i] = 46)
                 \o << Len(s) + 1 >>
    IN [k \in 1..(Len(dots) - 1) |-> SubSeq(s, dots[k] + 1, dots[k + 1] - 1)]

IsOctet(t) ==
    /\ Len(t) \in 1..3
    /\ \A i \in 1..Len(t) : t[i] \in 48..57
    /\ DecimalValue(t, Len(t)) <= 255

IsDottedQuad(s) ==
    /\ Len(Parts(s)) = 4
    /\ \A k \in 1..4 : IsOctet(Parts(s)[k])

\* C4: store_device_ip ends with status 1 and leaves devices.json as it was
\* whenever the ip address it validates is not a dotted quad of four decimal
\* octets in 0..255, and lets a dotted quad through to the store.
C4_InvalidIpRejected ==
    (Ran("store_device_ip") /\ call.ip # None)
    => IF IsDottedQuad(call.ip)
       THEN call.stored \/ call.raised # "none"
       ELSE call.exit = 1 /\ ~call.stored /\ devFile = call.file_before

\* C5: a store_device_ip that succeeds leaves a devices map that has the
\* selected serial with the given ip_address, the other fields that serial
\* had, and every other serial's entry as before (none, for an absent file);
\* so the map holds, for each serial ever stored, the ip stored last.
C5_Upsert ==
    /\ (Ran("store_device_ip") /\ call.stored)
       => /\ devFile.kind = "dict"
          /\ DOMAIN devFile.devices =
                DOMAIN Overrides(call.file_before) \cup {call.selected}
          /\ devFile.devices[call.selected]["ip_address"] = call.ip
          /\ \A t \in DOMAIN Overrides(call.file_before) \ {call.selected} :
                devFile.devices[t] = Overrides(call.file_before)[t]
          /\ DOMAIN devFile.devices[call.selected] =
                {"ip_address"} \cup
                (IF call.selected \in DOMAIN Overrides(call.file_before)
                 THEN DOMAIN Overrides(call.file_before)[call.selected] ELSE {})
          /\ \A f \in DOMAIN devFile.devices[call.selected] \ {"ip_address"} :
                devFile.devices[call.selected][f] =
                    Overrides(call.file_before)[call.selected][f]
    /\ \A t \in DOMAIN lastIp :
          /\ devFile.kind = "dict"
          /\ t \in DOMAIN devFile.devices
          /\ "ip_address" \in DOMAIN devFile.devices[t]
          /\ devFile.devices[t]["ip_address"] = lastIp[t]

\* a second store for a serial that has a note and an older ip, next to
\* another serial's entry
C5_Witness ==
    /\ Ran("store_device_ip")
    /\ call.stored
    /\ call.selected = << 83, 50 >>
    /\ call.ip = IpB
    /\ call.file_before = S2File
    /\ devFile.devices[<< 83, 50 >>] = BothEntry(IpB)

\* C6: over a devices.json that is not JSON, or is JSON of another shape,
\* list and store_device_ip raise nothing and go on with the devices as the
\* cloud listed them.
C6_MalformedRecovered ==
    ((Ran("list") \/ Ran("store_device_ip"))
        /\ call.file_before.kind \in {"invalid", "list", "nodevices"})
    => /\ call.raised = "none"
       /\ call.devices = cloud
       /\ call.config = NoDevices

Numeral(k) == << 48 + k >>

\* C8 as stated: a numeral k within the listing, given as the identifier
\* argument or at the selection prompt, selects the k-th device listed and
\* the store goes under that device's serial.
C8_NumericIdentifier ==
    \A k \in 1..Cardinality(CloudDevices) :
        (/\ Ran("store_device_ip")
         /\ call.raised \notin {"JSONDecodeError", "AttributeError"}
         /\ k <= Len(call.devices)
         /\ \/ call.device_identifier = Numeral(k)
            \/ call.device_identifier = None /\ call.choice = Numeral(k))
        => /\ call.selected = call.devices[k].serial
           /\ call.stored => /\ call.devices[k].serial \in DOMAIN devFile.devices
                             /\ devFile.devices[call.devices[k].serial]["ip_address"]
                                    = call.ip

\* C8: a numeral k within the listing, answered at the selection prompt
\* (which is asked when no identifier argument is given), selects the k-th
\* device listed, whatever the names and serials are, and the store goes
\* under that device's serial.
C8_PromptIndex ==
    \A k \in 1..Cardinality(CloudDevices) :
        (/\ Ran("store_device_ip")
         /\ call.raised \notin {"JSONDecodeError", "AttributeError"}
         /\ k <= Len(call.devices)
         /\ call.device_identifier = None
         /\ call.choice = Numeral(k))
        => /\ call.selected = call.devices[k].serial
           /\ call.stored => /\ call.devices[k].serial \in DOMAIN devFile.devices
                             /\ devFile.devices[call.devices[k].serial]["ip_address"]
                                    = call.ip

\* "2" at the prompt, with a device named "2" listed first and a device of
\* serial "2" listed third: the second device is stored
C8_Witness ==
    /\ Ran("store_device_ip")
    /\ call.device_identifier = None
    /\ call.choice = Numeral(2)
    /\ Len(call.devices) = 3
    /\ call.devices[1].name = Numeral(2)
    /\ call.devices[3].serial = Numeral(2)
    /\ call.selected = << 83, 50 >>
    /\ call.stored
    /\ devFile.devices[<< 83, 50 >>]["ip_address"] = call.ip

\* C7: list --verbose adds one row per device, and in the row just added
\* each of temperature, mode, fan speed, status and wifi shows "N/A" exactly
\* when its own accessor raised or returned nothing, and its value
\* otherwise; nothing is raised.
C7_FieldsIndependent ==
    (call.op = "list_verbose" /\ call.auth = "ok" /\ call.outcome # NoOutcome
        /\ call.outcome.get_name = "value")
    => LET o == call.outcome
           r == call.table[Len(call.table)]
       IN /\ call.raised = "none"
          /\ r.temperature =
                IF o.update_status = "value" /\ o.get_current_temperature = "value"
                THEN TempCell ELSE NA
          /\ r.mode = IF o.get_mode = "value" THEN ModeCell ELSE NA
          /\ r.fan_speed = IF o.get_fan_speed = "value" THEN FanCell ELSE NA
          /\ r.status = IF o.get_runstate = "value" THEN StatusCell ELSE NA
          /\ r.wifi = IF o.get_wifi_rssi = "value" THEN WifiCell ELSE NA
          /\ call.printed => Len(call.table) = Len(call.devices)

====
